---- MODULE Spec2Model ----
(***************************************************************************)
(* pe32multi_sub.py: the relay that stores MQTT measurements in PostgreSQL. *)
(*                                                                         *)
(* Representation.                                                         *)
(*   - A database value is a sequence: <<>> is NULL, <<x>> is the value x. *)
(*     Python's None for a fetched NULL is the same <<>>.                  *)
(*   - A topic is a sequence of tokens: the token "/" is the separator and *)
(*     every other token is a (non-empty) run of characters without "/".   *)
(*   - A payload is a sequence of byte values (0..255); the decoded str is *)
(*     the sequence of its code points.                                    *)
(*   - A float is <<n, k>>: the number n / 10^k, with k minimal.           *)
(*   - time.time() is read in whole seconds.                               *)
(***************************************************************************)
EXTENDS Integers, Sequences, FiniteSets, TLC

VARIABLES
    pc,             \* where the process is: "start", "loop", "exited"
    exit_error,     \* the exception that ended the process ("" while alive)
    dbconn_global,  \* is the module-level name `dbconn` bound?
    schema,         \* the schema the database has (a name, see SchemaColumns)
    device,         \* the device table: id -> label_id (NULL or a value)
    rows,           \* the committed rows of the measurement tables, in order
    conn,           \* DatabaseConnection._conn of the writer
    tables,         \* Pe32DataTables._tables of the relay's writer
    log             \* what the last handled message logged

vars == <<pc, exit_error, dbconn_global, schema, device, rows, conn, tables, log>>

(***************************************************************************)
(* Bounds of the model.                                                    *)
(***************************************************************************)
MaxRows == 2
MaxTime == 130

Null == <<>>
Some(x) == <<x>>

\* An exception is [etype, e]: its class and the strings its message
\* carries. NoExc is "no exception".
Exc(etype, e) == [etype |-> etype, e |-> e]
NoExc == Exc("", <<>>)

(***************************************************************************)
(* The database: schema, device table.                                     *)
(***************************************************************************)
_DB_TS == "timestamp with time zone"
_DB_FK == "integer"
_DB_NUM == "real"
_DB_STR == "character varying"

Col(t, c, n, d, dflt) ==
    [table_name |-> t, column_name |-> c, is_nullable |-> n, data_type |-> d,
     column_default |-> dflt]

NumericColumns(t, med_default) ==
    { Col(t, "time", "NO", _DB_TS, Null),
      Col(t, "label_id", "NO", _DB_FK, Null),
      Col(t, "avg", "NO", _DB_NUM, Null),
      Col(t, "med", "NO", _DB_NUM, med_default),
      Col(t, "low", "YES", _DB_NUM, Null),
      Col(t, "high", "YES", _DB_NUM, Null) }

TextColumns(t) ==
    { Col(t, "time", "NO", _DB_TS, Null),
      Col(t, "label_id", "NO", _DB_FK, Null),
      Col(t, "value", "NO", _DB_STR, Null) }

\* The schema the relay is deployed on: the two system tables, a numeric
\* table as the layout describes it (temperature), a numeric table whose med
\* column has a database default of 0 (humidity), a text table (comfort) and
\* a table like humidity with one more, nullable, column (pressure).
DeployedSchema ==
    { Col("device", "id", "NO", _DB_FK, Null),
      Col("device", "identifier", "NO", _DB_STR, Null),
      Col("device", "dev_type", "NO", _DB_STR, Null),
      Col("device", "label_id", "YES", _DB_FK, Null),
      Col("label", "id", "NO", _DB_FK, Null),
      Col("label", "name", "NO", _DB_STR, Null) }
    \cup NumericColumns("temperature", Null)
    \cup NumericColumns("humidity", Some(<<0, 0>>))
    \cup TextColumns("comfort")
    \cup NumericColumns("pressure", Some(<<0, 0>>))
    \cup { Col("pressure", "note", "YES", _DB_STR, Null) }

\* The deployed schema after a migration: humidity is dropped, pressure
\* loses its extra column (and so takes the numeric layout), and a text
\* table dewpoint is added.
AlteredSchema ==
    { r \in DeployedSchema : r.table_name # "humidity" /\ r.column_name # "note" }
    \cup TextColumns("dewpoint")

\* A schema with the system tables and one more table, named `table`: its
\* columns are those of a layout, but for one change to one column. The
\* change "empty" is a table without columns (CREATE TABLE t ()).
LayoutColumnsOf(layout, table) ==
    IF layout = "numeric" THEN NumericColumns(table, Null) ELSE TextColumns(table)

ChangedColumns(cols, table, change, column) ==
    CASE change = "none" -> cols
      [] change = "empty" -> {}
      [] change = "drop" -> { r \in cols : r.column_name # column }
      [] change = "extra" -> cols \cup { Col(table, column, "YES", _DB_STR, Null) }
      [] change = "nullable" ->
            { IF r.column_name = column
              THEN Col(table, column, IF r.is_nullable = "NO" THEN "YES" ELSE "NO",
                       r.data_type, Null)
              ELSE r : r \in cols }
      [] change = "type" ->
            { IF r.column_name = column
              THEN Col(table, column, r.is_nullable,
                       IF r.data_type = _DB_STR THEN "text" ELSE "double precision", Null)
              ELSE r : r \in cols }

SingleTableSchema(table, layout, change, column) ==
    { r \in DeployedSchema : r.table_name \in {"device", "label"} \ {table} }
    \cup ChangedColumns(LayoutColumnsOf(layout, table), table, change, column)

\* The name of a schema: the deployed one, the altered one, or one with a
\* single table.
SchemaName(kind, table, layout, change, column) ==
    [kind |-> kind, table |-> table, layout |-> layout, change |-> change,
     column |-> column]

Deployed == SchemaName("deployed", "", "", "", "")
Altered == SchemaName("altered", "", "", "", "")

\* information_schema.columns of the database, by the name of its schema
SchemaColumns(name) ==
    CASE name.kind = "deployed" -> DeployedSchema
      [] name.kind = "altered" -> AlteredSchema
      [] name.kind = "single" ->
            SingleTableSchema(name.table, name.layout, name.change, name.column)

\* information_schema.tables of the database (the base tables)
SchemaTables(name) ==
    { r.table_name : r \in SchemaColumns(name) }
    \cup (IF name.kind = "single" THEN {"device", "label", name.table} ELSE {})

\* The rows of the device table: id -> identifier. Two records share an
\* identifier, and no record has the identifier "ghost".
DeviceIds == 1 .. 3
DeviceIdentifier(id) == IF id = 1 THEN "devA" ELSE "dup"
DevType == "pe32"
LabelIds == {0, 1}

(***************************************************************************)
(* DatabaseIntrospection.                                                 *)
(***************************************************************************)
\* The answer of a query is a sequence of rows in an order the server
\* chooses. SeqOf fixes one order of a set of rows; Reorder turns it by k
\* places and, with rev, reverses it.
RECURSIVE SeqOf(_)
SeqOf(S) ==
    IF S = {} THEN <<>>
    ELSE LET x == CHOOSE y \in S : TRUE IN <<x>> \o SeqOf(S \ {x})

Reverse(q) == [ i \in 1 .. Len(q) |-> q[Len(q) + 1 - i] ]

Rotate(q, k) == SubSeq(q, k + 1, Len(q)) \o SubSeq(q, 1, k)

Reorder(q, k, rev) == IF rev THEN Reverse(Rotate(q, k)) ELSE Rotate(q, k)

Reorders(q) ==
    { Reorder(q, k, rev) : k \in 0 .. (IF q = <<>> THEN 0 ELSE Len(q) - 1), rev \in BOOLEAN }

\* The str order of the table names the model uses.
NameOrder ==
    <<"comfort", "device", "dewpoint", "humidity", "label", "pressure", "temperature">>

\* The rows of q table by table
RECURSIVE Grouped(_, _)
Grouped(q, names) ==
    IF names = <<>> THEN <<>>
    ELSE SelectSeq(q, LAMBDA r : r.table_name = Head(names)) \o Grouped(q, Tail(names))

\* The answers to the query on information_schema.tables, and to the one on
\* information_schema.columns, that the model enumerates
TableAnswers(S) == Reorders(SeqOf(S))

ColumnAnswers(S) == Reorders(SeqOf(S)) \cup Reorders(Grouped(SeqOf(S), NameOrder))

NameIndex(t) == CHOOSE i \in 1 .. Len(NameOrder) : NameOrder[i] = t

\* sorted(): insertion of each name in its place
RECURSIVE InsertSorted(_, _)
InsertSorted(q, t) ==
    IF q = <<>> THEN <<t>>
    ELSE IF NameIndex(t) < NameIndex(Head(q)) THEN <<t>> \o q
    ELSE <<Head(q)>> \o InsertSorted(Tail(q), t)

RECURSIVE Sorted(_)
Sorted(q) == IF q = <<>> THEN <<>> ELSE InsertSorted(Sorted(Tail(q)), Head(q))

\* DatabaseIntrospection.tables, from the answer of the query on
\* information_schema.tables
IntrospectionTables(tables_res) == Sorted(tables_res)

\* The query on information_schema.columns: table_name IN (tables_str)
SelectColumns(columns_res, names) ==
    SelectSeq(columns_res, LAMBDA r : \E i \in 1 .. Len(names) : names[i] = r.table_name)

\* columns_for[table_name][column_name] = {'is_nullable': ..., 'data_type': ...}
PutColumn(columns_for, r) ==
    [ t \in DOMAIN columns_for \cup {r.table_name} |->
        [ c \in (IF t \in DOMAIN columns_for THEN DOMAIN columns_for[t] ELSE {})
                 \cup (IF t = r.table_name THEN {r.column_name} ELSE {}) |->
            IF t = r.table_name /\ c = r.column_name
            THEN [is_nullable |-> r.is_nullable # "NO", data_type |-> r.data_type]
            ELSE columns_for[t][c] ] ]

\* (rows taken as grouped by table: a row of another table than the one
\* before it starts the table's dict anew)
PutColumn_grouped(columns_for, r, previous) ==
    IF previous # <<>> /\ previous[1].table_name = r.table_name
    THEN PutColumn(columns_for, r)
    ELSE [ t \in DOMAIN columns_for \cup {r.table_name} |->
            IF t = r.table_name
            THEN [ c \in {r.column_name} |->
                    [is_nullable |-> r.is_nullable # "NO", data_type |-> r.data_type] ]
            ELSE columns_for[t] ]

RECURSIVE ColumnsForLoop_grouped(_, _, _)
ColumnsForLoop_grouped(columns_for, res, previous) ==
    IF res = <<>> THEN columns_for
    ELSE ColumnsForLoop_grouped(PutColumn_grouped(columns_for, Head(res), previous),
                                Tail(res), <<Head(res)>>)

ColumnsForDict_grouped(res) == ColumnsForLoop_grouped(<<>>, res, <<>>)

\* for row in res: ...
RECURSIVE ColumnsForLoop(_, _)
ColumnsForLoop(columns_for, res) ==
    IF res = <<>> THEN columns_for
    ELSE ColumnsForLoop(PutColumn(columns_for, Head(res)), Tail(res))

\* self._columns_for, from the answer of the query
ColumnsForDict(res) == ColumnsForLoop(<<>>, res)

\* self._columns_for[table]: [exc, columns]; a table without a row in the
\* answer is no key of the dict
ColumnsFor(columns_for, table) ==
    IF table \in DOMAIN columns_for
    THEN [exc |-> NoExc, columns |-> columns_for[table]]
    ELSE [exc |-> Exc("KeyError", <<table>>), columns |-> <<>>]

(***************************************************************************)
(* Pe32DataTables.                                                         *)
(***************************************************************************)
LayoutColumn(n, d) == [is_nullable |-> n, data_type |-> d]

_NUMERIC_TABLE_LAYOUT ==
    [ c \in {"time", "label_id", "avg", "med", "low", "high"} |->
        CASE c = "time" -> LayoutColumn(FALSE, _DB_TS)
          [] c = "label_id" -> LayoutColumn(FALSE, _DB_FK)
          [] c = "avg" -> LayoutColumn(FALSE, _DB_NUM)
          [] c = "med" -> LayoutColumn(FALSE, _DB_NUM)
          [] c = "low" -> LayoutColumn(TRUE, _DB_NUM)
          [] c = "high" -> LayoutColumn(TRUE, _DB_NUM) ]

_TEXT_TABLE_LAYOUT ==
    [ c \in {"time", "label_id", "value"} |->
        CASE c = "time" -> LayoutColumn(FALSE, _DB_TS)
          [] c = "label_id" -> LayoutColumn(FALSE, _DB_FK)
          [] c = "value" -> LayoutColumn(FALSE, _DB_STR) ]

\* _tables[table] = (table, marshaller)
add_numeric(t, table) ==
    [ x \in DOMAIN t \cup {table} |-> IF x = table THEN <<table, "float">> ELSE t[x] ]

add_text(t, table) ==
    [ x \in DOMAIN t \cup {table} |-> IF x = table THEN <<table, "str">> ELSE t[x] ]

\* One turn of the loop of from_database, with the columns of the table.
ClassifyTable(t, columns, table) ==
    IF table \in {"device", "label"} THEN t
    ELSE IF columns = _NUMERIC_TABLE_LAYOUT THEN add_numeric(t, table)
    ELSE IF columns = _TEXT_TABLE_LAYOUT THEN add_text(t, table)
    ELSE t

\* for table in dbconn.introspection.tables: [exc, tables]
RECURSIVE FromDatabaseLoop(_, _, _)
FromDatabaseLoop(t, columns_for, names) ==
    IF names = <<>> THEN [exc |-> NoExc, tables |-> t]
    ELSE IF ColumnsFor(columns_for, Head(names)).exc # NoExc
    THEN [exc |-> ColumnsFor(columns_for, Head(names)).exc, tables |-> <<>>]
    ELSE FromDatabaseLoop(
            ClassifyTable(t, ColumnsFor(columns_for, Head(names)).columns, Head(names)),
            columns_for, Tail(names))

\* from_database, given the answers of the two queries: [exc, tables]
from_database(tables_res, columns_res) ==
    FromDatabaseLoop(<<>>,
                     ColumnsForDict(SelectColumns(columns_res, IntrospectionTables(tables_res))),
                     IntrospectionTables(tables_res))

\* (get with a default that routes every name to a numeric table)
TablesGet_routing_all(t, table) ==
    IF table \in DOMAIN t THEN <<Some(t[table][1]), Some(t[table][2])>>
    ELSE <<Some(table), Some("float")>>

\* Pe32DataTables.get: (table, marshaller), or (None, None)
TablesGet(t, table) ==
    IF table \in DOMAIN t THEN <<Some(t[table][1]), Some(t[table][2])>>
    ELSE <<Null, Null>>

(***************************************************************************)
(* Log records.                                                            *)
(***************************************************************************)
NoLog == [level |-> "none", etype |-> "", e |-> <<>>, ignoring |-> <<>>]

\* log.error(f'{type(e)}: {msg.payload} -> {e}'); the payload, which the
\* message in hand gives, is not kept in the record.
ErrorLog(exc) ==
    [level |-> "error", etype |-> exc.etype, e |-> exc.e, ignoring |-> <<>>]

\* The text of that record, f'{type(e)}: {msg.payload} -> {e}': the class
\* of the exception, the payload, and the strings of the exception's message.
ErrorLine(payload, exc) == [etype |-> exc.etype, payload |-> payload, e |-> exc.e]

\* log.info(f'ignoring {device_id} {dev_type} {label_id} {measure} {str_value}')
IgnoringLog(id, dev_type, label_id, measure) ==
    [level |-> "info", etype |-> "", e |-> <<dev_type, measure>>,
     ignoring |-> <<Some(id), label_id>>]

(***************************************************************************)
(* DatabaseConnection. `up` tells whether the server answers.              *)
(***************************************************************************)
\* (get() without the test on .closed: the assert meets a closed connection)
ConnGet_no_reopen(c, up) ==
    IF c = "none" THEN
        IF up THEN [conn |-> "open", exc |-> NoExc, connects |-> 1]
        ELSE [conn |-> "none", exc |-> Exc("OperationalError", <<>>), connects |-> 1]
    ELSE IF c = "closed"
    THEN [conn |-> "closed", exc |-> Exc("AssertionError", <<>>), connects |-> 0]
    ELSE [conn |-> "open", exc |-> NoExc, connects |-> 0]

\* get(): the connection after the call, the exception of connect(), and
\* the number of calls of psycopg2.connect
ConnGet(c, up) ==
    IF c = "none" THEN
        IF up THEN [conn |-> "open", exc |-> NoExc, connects |-> 1]
        ELSE [conn |-> "none", exc |-> Exc("OperationalError", <<>>), connects |-> 1]
    ELSE IF c = "closed" THEN
        IF up THEN [conn |-> "open", exc |-> NoExc, connects |-> 1]
        ELSE [conn |-> "closed", exc |-> Exc("OperationalError", <<>>), connects |-> 1]
    ELSE [conn |-> "open", exc |-> NoExc, connects |-> 0]

\* cursor.execute on the connection get() returned: a server that does not
\* answer breaks the connection, which psycopg2 then reports as closed.
ExecuteOn(g, up) ==
    IF g.exc # NoExc THEN g
    ELSE IF up THEN g
    ELSE [conn |-> "closed", exc |-> Exc("OperationalError", <<>>),
          connects |-> g.connects]

ConnExecute(c, up) == ExecuteOn(ConnGet(c, up), up)

\* SELECT id, dev_type, label_id FROM device WHERE identifier = %s
SelectDevice(dev, identifier) ==
    { <<id, DevType, dev[id]>> : id \in { i \in DeviceIds : DeviceIdentifier(i) = identifier } }

\* (ret[0] without the assert: the first row fetched, however many)
FetchFirst(x, ret, identifier) ==
    IF x.exc # NoExc THEN [conn |-> x.conn, exc |-> x.exc, row |-> <<>>, lookups |-> 1]
    ELSE IF ret = {}
    THEN [conn |-> x.conn, exc |-> Exc("IndexError", <<>>), row |-> <<>>, lookups |-> 1]
    ELSE [conn |-> x.conn, exc |-> NoExc, row |-> CHOOSE r \in ret : TRUE,
          lookups |-> 1]

get_row_first(c, dev, up, identifier) ==
    FetchFirst(ConnExecute(c, up), SelectDevice(dev, identifier), identifier)

\* assert len(ret) == 1; return ret[0], after the execute that gave x
FetchOne(x, ret, identifier) ==
    IF x.exc # NoExc THEN [conn |-> x.conn, exc |-> x.exc, row |-> <<>>, lookups |-> 1]
    ELSE IF Cardinality(ret) # 1
    THEN [conn |-> x.conn, exc |-> Exc("AssertionError", <<identifier>>), row |-> <<>>, lookups |-> 1]
    ELSE [conn |-> x.conn, exc |-> NoExc, row |-> CHOOSE r \in ret : TRUE,
          lookups |-> 1]

\* get_row: [conn, exc, row, lookups], lookups the number of queries on the
\* device table
get_row(c, dev, up, identifier) ==
    FetchOne(ConnExecute(c, up), SelectDevice(dev, identifier), identifier)

\* INSERT INTO table (columns of `given`) VALUES (...), as PostgreSQL runs it:
\* a column that is not given takes its default, and a NULL in a column that
\* is not nullable is refused.
TableColumns(sch, table) == { r \in sch : r.table_name = table }

InsertedRow(cols, given) ==
    [ c \in { r.column_name : r \in cols } |->
        IF c \in DOMAIN given THEN given[c]
        ELSE (CHOOSE r \in cols : r.column_name = c).column_default ]

CheckedInsert(cols, row, table, given) ==
    IF cols = {} \/ ~(DOMAIN given \subseteq { r.column_name : r \in cols })
    THEN [exc |-> Exc("ProgrammingError", <<table>>), row |-> <<>>]
    ELSE IF \E r \in cols : r.is_nullable = "NO" /\ row[r.column_name] = Null
    THEN [exc |-> Exc("IntegrityError",
                      <<(CHOOSE r \in cols : r.is_nullable = "NO"
                            /\ row[r.column_name] = Null).column_name, table>>),
          row |-> <<>>]
    ELSE [exc |-> NoExc, row |-> [table |-> table, cols |-> row]]

DbInsert(sch, table, given) ==
    CheckedInsert(TableColumns(sch, table),
                  InsertedRow(TableColumns(sch, table), given), table, given)

\* (no commit per call: the rows wait in one open transaction, which the
\* rollback of a failed insert takes with it)
Committed_batched(x, ins, rws) ==
    IF x.exc # NoExc THEN [conn |-> x.conn, exc |-> x.exc, rows |-> rws]
    ELSE IF ins.exc # NoExc THEN [conn |-> x.conn, exc |-> ins.exc, rows |-> <<>>]
    ELSE [conn |-> x.conn, exc |-> NoExc, rows |-> Append(rws, ins.row)]

\* put_row: [conn, exc, rows]; the with-block commits on a normal exit and
\* rolls back on an exception.
Committed(x, ins, rws) ==
    IF x.exc # NoExc THEN [conn |-> x.conn, exc |-> x.exc, rows |-> rws]
    ELSE IF ins.exc # NoExc THEN [conn |-> x.conn, exc |-> ins.exc, rows |-> rws]
    ELSE [conn |-> x.conn, exc |-> NoExc, rows |-> Append(rws, ins.row)]

\* (the INSERT executed a second time, as a retry would)
put_row_twice(c, sch, rws, up, table, given) ==
    Committed(ConnExecute(c, up), DbInsert(sch, table, given),
              Committed(ConnExecute(c, up), DbInsert(sch, table, given), rws).rows)

put_row(c, sch, rws, up, table, given) ==
    Committed(ConnExecute(c, up), DbInsert(sch, table, given), rws)

(***************************************************************************)
(* Strings: bytes.decode('ascii'), str.split('/'), float(str).             *)
(***************************************************************************)
\* payload.decode('ascii'): [exc, str]
DecodeAscii(payload) ==
    IF \E i \in 1 .. Len(payload) : payload[i] >= 128
    THEN [exc |-> Exc("UnicodeDecodeError", <<>>), str |-> <<>>]
    ELSE [exc |-> NoExc, str |-> payload]

\* topic.split('/'): the list of the segments, "" for an empty one
RECURSIVE SplitLoop(_, _, _)
SplitLoop(tokens, cur, acc) ==
    IF tokens = <<>> THEN Append(acc, cur)
    ELSE IF Head(tokens) = "/" THEN SplitLoop(Tail(tokens), "", Append(acc, cur))
    ELSE SplitLoop(Tail(tokens), Head(tokens), acc)

Split(topic) == SplitLoop(topic, "", <<>>)

\* float(str): [exc, value]. Leading and trailing whitespace is dropped, a
\* sign may come first, then digits with at most one point and at least one
\* digit. (Exponents, underscores, "inf" and "nan" are outside the payloads
\* the model enumerates.)
IsSpace(c) == c \in {9, 10, 11, 12, 13, 32}
IsDigit(c) == c \in 48 .. 57

RECURSIVE LStrip(_)
LStrip(s) == IF s # <<>> /\ IsSpace(Head(s)) THEN LStrip(Tail(s)) ELSE s

RECURSIVE RStrip(_)
RStrip(s) ==
    IF s # <<>> /\ IsSpace(s[Len(s)]) THEN RStrip(SubSeq(s, 1, Len(s) - 1)) ELSE s

RECURSIVE DigitsValue(_)
DigitsValue(s) ==
    IF s = <<>> THEN 0 ELSE 10 * DigitsValue(SubSeq(s, 1, Len(s) - 1)) + (s[Len(s)] - 48)

RECURSIVE Normalize(_, _)
Normalize(n, k) == IF k > 0 /\ n % 10 = 0 THEN Normalize(n \div 10, k - 1) ELSE <<n, k>>

PointAt(s) == IF \E i \in 1 .. Len(s) : s[i] = 46
              THEN CHOOSE i \in 1 .. Len(s) : s[i] = 46 /\ \A j \in 1 .. (i - 1) : s[j] # 46
              ELSE Len(s) + 1

\* the digits before and after the point, and the sign
ParseDigits(int, frac, negative) ==
    IF /\ \A i \in 1 .. Len(int) : IsDigit(int[i])
       /\ \A i \in 1 .. Len(frac) : IsDigit(frac[i])
       /\ Len(int) + Len(frac) >= 1
    THEN [exc |-> NoExc,
          value |-> Normalize((IF negative THEN -1 ELSE 1) * DigitsValue(int \o frac),
                              Len(frac))]
    ELSE [exc |-> Exc("ValueError", <<>>), value |-> <<>>]

ParseUnsigned(body, p, negative) ==
    ParseDigits(SubSeq(body, 1, p - 1), SubSeq(body, p + 1, Len(body)), negative)

ParseStripped(s) ==
    IF s # <<>> /\ Head(s) \in {43, 45}
    THEN ParseUnsigned(Tail(s), PointAt(Tail(s)), Head(s) = 45)
    ELSE ParseUnsigned(s, PointAt(s), FALSE)

ParseFloat(str) == ParseStripped(RStrip(LStrip(str)))

\* (a float marshaller that reads what it cannot parse as 0)
Lenient(parsed) ==
    IF parsed.exc = NoExc THEN parsed ELSE [exc |-> NoExc, value |-> <<0, 0>>]

Marshal_lenient(marshaller, str_value) ==
    IF marshaller = "float" THEN Lenient(ParseFloat(str_value))
    ELSE [exc |-> NoExc, value |-> str_value]

\* marshaller(str_value), for the marshallers float and str
Marshal(marshaller, str_value) ==
    IF marshaller = "float" THEN ParseFloat(str_value)
    ELSE [exc |-> NoExc, value |-> str_value]

\* (the time rounded to the nearest minute)
Timestamp_rounded(t) == ((t + 30) \div 60) * 60

\* (time.time() // 60) * 60
Timestamp(t) == (t \div 60) * 60

(***************************************************************************)
(* Pe32Writer.                                                             *)
(***************************************************************************)
\* `not x` for a fetched or looked-up value: None, 0 and '' are falsy
FalsyStr(x) == x = Null \/ x = Some("")
\* (a test for 0 alone)
FalsyInt_zero_only(x) == x = Some(0)
\* (a test for None alone: `label_id is None`)
FalsyInt_none_only(x) == x = Null

FalsyInt(x) == x = Null \/ x = Some(0)

\* (the empty string stored as NULL)
TextRow_empty_as_null(timestamp, label_id, value) ==
    [ c \in {"time", "label_id", "value"} |->
        CASE c = "time" -> Some(timestamp)
          [] c = "label_id" -> label_id
          [] c = "value" -> IF value = <<>> THEN Null ELSE Some(value) ]

TextRow(timestamp, label_id, value) ==
    [ c \in {"time", "label_id", "value"} |->
        CASE c = "time" -> Some(timestamp)
          [] c = "label_id" -> label_id
          [] c = "value" -> Some(value) ]

NumericRow(timestamp, label_id, value) ==
    [ c \in {"time", "label_id", "low", "avg", "high"} |->
        CASE c = "time" -> Some(timestamp)
          [] c = "label_id" -> label_id
          [] c \in {"low", "avg", "high"} -> Some(value) ]

\* Lines 215-226, after the marshaller has given m: [conn, rows, log, exc]
Written(put, lookups) ==
    [conn |-> put.conn, rows |-> put.rows, log |-> NoLog, exc |-> put.exc,
     lookups |-> lookups]

OnMeasureWrite(got, table, marshaller, m, timestamp, sch, rws, up) ==
    IF m.exc # NoExc
    THEN [conn |-> got.conn, rows |-> rws, log |-> NoLog, exc |-> m.exc,
          lookups |-> got.lookups]
    ELSE Written(put_row(got.conn, sch, rws, up, table,
                         IF marshaller = "str"
                         THEN TextRow(timestamp, got.row[3], m.value)
                         ELSE NumericRow(timestamp, got.row[3], m.value)),
                 got.lookups)

\* Lines 208-226, after get_device has given got and the catalog routed
OnMeasureRouted(got, routed, sch, rws, up, t, measure, str_value) ==
    IF got.exc # NoExc
    THEN [conn |-> got.conn, rows |-> rws, log |-> NoLog, exc |-> got.exc,
          lookups |-> got.lookups]
    ELSE IF FalsyStr(routed[1]) \/ FalsyInt(got.row[3])
    THEN [conn |-> got.conn, rows |-> rws, exc |-> NoExc,
          log |-> IgnoringLog(got.row[1], got.row[2], got.row[3], measure),
          lookups |-> got.lookups]
    ELSE OnMeasureWrite(got, routed[1][1], routed[2][1],
                        Marshal(routed[2][1], str_value), Timestamp(t), sch, rws, up)

\* on_measure: [conn, rows, log, exc, lookups]
WriterOnMeasure(c, dev, sch, rws, tbl, up, t, device_id, measure, str_value) ==
    OnMeasureRouted(get_row(c, dev, up, device_id), TablesGet(tbl, measure),
                    sch, rws, up, t, measure, str_value)

(***************************************************************************)
(* Pe32Relay.                                                              *)
(***************************************************************************)
\* (on_payload without the assert on the namespace)
OnPayloadParts_any_namespace(parts, c, dev, sch, rws, tbl, up, t, payload) ==
    IF Len(parts) # 4
    THEN [conn |-> c, rows |-> rws, log |-> NoLog, exc |-> Exc("ValueError", parts),
          lookups |-> 0]
    ELSE IF parts[1] # "pe32"
    THEN [conn |-> c, rows |-> rws, log |-> NoLog, exc |-> Exc("AssertionError", parts),
          lookups |-> 0]
    ELSE WriterOnMeasure(c, dev, sch, rws, tbl, up, t, parts[4], parts[3], payload)

on_payload_any_namespace(c, dev, sch, rws, tbl, up, t, topic, payload) ==
    OnPayloadParts_any_namespace(Split(topic), c, dev, sch, rws, tbl, up, t, payload)

\* Lines 257-265, on the split topic. The asserts are taken as they run
\* under the plain interpreter of the shebang line (not python -O).
OnPayloadParts(parts, c, dev, sch, rws, tbl, up, t, payload) ==
    IF Len(parts) # 4
    THEN [conn |-> c, rows |-> rws, log |-> NoLog, exc |-> Exc("ValueError", parts),
          lookups |-> 0]
    ELSE IF parts[1] # "pe32" \/ parts[2] # "ossohq"
    THEN [conn |-> c, rows |-> rws, log |-> NoLog, exc |-> Exc("AssertionError", parts),
          lookups |-> 0]
    ELSE WriterOnMeasure(c, dev, sch, rws, tbl, up, t, parts[4], parts[3], payload)

\* on_payload: [conn, rows, log, exc, lookups]
on_payload(c, dev, sch, rws, tbl, up, t, topic, payload) ==
    OnPayloadParts(Split(topic), c, dev, sch, rws, tbl, up, t, payload)

\* The try block of on_message, given the decoded payload: [conn, rows, log, exc]
TryBlock(d, c, dev, sch, rws, tbl, up, t, topic) ==
    IF d.exc # NoExc
    THEN [conn |-> c, rows |-> rws, log |-> NoLog, exc |-> d.exc, lookups |-> 0]
    ELSE on_payload(c, dev, sch, rws, tbl, up, t, topic, d.str)

\* (an except clause that catches ValueError alone)
Except_ValueError(r) ==
    IF r.exc # NoExc /\ r.exc.etype \in {"ValueError", "UnicodeDecodeError"}
    THEN [conn |-> r.conn, rows |-> r.rows, log |-> ErrorLog(r.exc),
          exc |-> r.exc, raised |-> NoExc, lookups |-> r.lookups]
    ELSE [conn |-> r.conn, rows |-> r.rows, log |-> r.log,
          exc |-> NoExc, raised |-> r.exc, lookups |-> r.lookups]

on_message_except_ValueError(c, dev, sch, rws, tbl, up, t, topic, payload) ==
    Except_ValueError(TryBlock(DecodeAscii(payload), c, dev, sch, rws, tbl, up, t, topic))

\* except Exception as e: log.error(...)
ExceptException(r) ==
    IF r.exc # NoExc
    THEN [conn |-> r.conn, rows |-> r.rows, log |-> ErrorLog(r.exc),
          exc |-> r.exc, raised |-> NoExc, lookups |-> r.lookups]
    ELSE [conn |-> r.conn, rows |-> r.rows, log |-> r.log,
          exc |-> NoExc, raised |-> NoExc, lookups |-> r.lookups]

\* on_message: [conn, rows, log, exc, raised, lookups]. exc is the exception the
\* try block caught, raised the one that leaves on_message. (The assert on
\* userdata, outside the try block, holds: loop_forever builds the client
\* without userdata.)
on_message(c, dev, sch, rws, tbl, up, t, topic, payload) ==
    ExceptException(TryBlock(DecodeAscii(payload), c, dev, sch, rws, tbl, up, t, topic))

(***************************************************************************)
(* The inputs the model enumerates.                                        *)
(***************************************************************************)
\* '/'.join(segments), as tokens
RECURSIVE Join(_)
Join(segs) ==
    IF segs = <<>> THEN <<>>
    ELSE LET first == IF Head(segs) = "" THEN <<>> ELSE <<Head(segs)>>
         IN  IF Len(segs) = 1 THEN first ELSE first \o <<"/">> \o Join(Tail(segs))

Measures == {"temperature", "humidity", "comfort", "pressure", "device", "label"}
Identifiers == {"devA", "dup", "ghost"}

WellFormedTopics == { Join(<<"pe32", "ossohq", m, d>>) : m \in Measures, d \in Identifiers }

MalformedTopics ==
    { Join(<<"pe32", "wrongns", "comfort", "devA">>),
      Join(<<"mqtt", "ossohq", "comfort", "devA">>),
      Join(<<"pe32", "ossohq", "comfort">>),
      Join(<<"pe32", "ossohq", "comfort", "devA", "x">>),
      Join(<<>>) }

Topics == WellFormedTopics \cup MalformedTopics

\* b'21.5', b'' and b'\xff'
Payloads == { <<50, 49, 46, 53>>, <<>>, <<255>> }

TimePoints == {59, 60}

(***************************************************************************)
(* The process.                                                            *)
(***************************************************************************)
Init ==
    /\ pc = "start"
    /\ exit_error = ""
    /\ dbconn_global \in BOOLEAN
    /\ schema = Deployed
    /\ device = [id \in DeviceIds |-> IF id = 3 THEN Null ELSE Some(1)]
    /\ rows = <<>>
    /\ conn = "none"
    /\ tables = <<>>
    /\ log = NoLog

\* loop_forever() up to client.loop_forever(): [pc, exit_error, tables].
\* DatabaseIntrospection.tables reads the module-level name dbconn, not
\* self._dbconn: with the name unbound, as it is under the relay command, it
\* raises NameError; with the name bound (as the other commands bind it, or
\* a module that imports this one), the connection it opens is that
\* object's, and the writer's own connection stays unopened.
Discovered(d, broker_up) ==
    IF d.exc # NoExc
    THEN [pc |-> "exited", exit_error |-> d.exc.etype, tables |-> <<>>]
    ELSE IF ~broker_up
    THEN [pc |-> "exited", exit_error |-> "ConnectionRefusedError", tables |-> <<>>]
    ELSE [pc |-> "loop", exit_error |-> "", tables |-> d.tables]

LoopForeverStart(global, tables_res, columns_res, db_up, broker_up) ==
    IF ~global THEN [pc |-> "exited", exit_error |-> "NameError", tables |-> <<>>]
    ELSE IF ~db_up THEN [pc |-> "exited", exit_error |-> "OperationalError", tables |-> <<>>]
    ELSE Discovered(from_database(tables_res, columns_res), broker_up)

Started(r) ==
    /\ pc' = r.pc
    /\ exit_error' = r.exit_error
    /\ tables' = r.tables

LoopForever ==
    /\ pc = "start"
    /\ \E db_up \in BOOLEAN, broker_up \in BOOLEAN,
          tables_res \in TableAnswers(SchemaTables(schema)),
          columns_res \in ColumnAnswers(SchemaColumns(schema)) :
        Started(LoopForeverStart(dbconn_global, tables_res, columns_res, db_up, broker_up))
    /\ UNCHANGED <<dbconn_global, schema, device, rows, conn, log>>

\* The schemas with one table beside the system tables: the table is named
\* as a measurement or as a system table, and its columns are a layout with
\* no change or one.
LayoutNames(layout) ==
    IF layout = "numeric" THEN {"time", "label_id", "avg", "med", "low", "high"}
    ELSE {"time", "label_id", "value"}

SingleSchemas ==
    { SchemaName("single", t, l, "none", "") :
        t \in {"temperature", "device", "label"}, l \in {"numeric", "text"} }
    \cup { SchemaName("single", "temperature", "numeric", "empty", "") }
    \cup { SchemaName("single", t, l, "extra", "note") :
        t \in {"temperature", "device", "label"}, l \in {"numeric", "text"} }
    \cup UNION { { SchemaName("single", t, l, ch, c) :
                    t \in {"temperature", "device", "label"},
                    ch \in {"drop", "nullable", "type"}, c \in LayoutNames(l) } :
                 l \in {"numeric", "text"} }

\* Startup on each of these schemas, and on the deployed and altered ones.
InitDiscovery ==
    /\ pc = "start"
    /\ exit_error = ""
    /\ dbconn_global \in BOOLEAN
    /\ schema \in SingleSchemas \cup {Deployed, Altered}
    /\ device = [id \in DeviceIds |-> IF id = 3 THEN Null ELSE Some(1)]
    /\ rows = <<>>
    /\ conn = "none"
    /\ tables = <<>>
    /\ log = NoLog

SpecDiscovery == InitDiscovery /\ [][LoopForever]_vars

\* The bus client delivers one message to Pe32Relay.on_message.
Handle(up, t, topic, payload) ==
    on_message(conn, device, SchemaColumns(schema), rows, tables, up, t, topic, payload)

\* on_message has returned r, or raised
Handled(r) ==
    /\ rows' = r.rows
    /\ conn' = r.conn
    /\ log' = r.log
    /\ pc' = IF r.raised = NoExc THEN "loop" ELSE "exited"
    /\ exit_error' = r.raised.etype

\* (discovery run again for every message)
OnMessage_rediscovering ==
    /\ pc = "loop"
    /\ Len(rows) < MaxRows
    /\ \E topic \in Topics, payload \in Payloads, t \in TimePoints, up \in BOOLEAN :
        Handled(Handle(up, t, topic, payload))
    /\ tables' = from_database(SeqOf(SchemaTables(schema)),
                               SeqOf(SchemaColumns(schema))).tables
    /\ UNCHANGED <<dbconn_global, schema, device>>

OnMessage ==
    /\ pc = "loop"
    /\ Len(rows) < MaxRows
    /\ \E topic \in Topics, payload \in Payloads, t \in TimePoints, up \in BOOLEAN :
        Handled(Handle(up, t, topic, payload))
    /\ UNCHANGED <<dbconn_global, schema, device, tables>>

\* A migration of the database, run while the relay is running.
AlterSchema ==
    /\ pc = "loop"
    /\ schema = Deployed
    /\ schema' = Altered
    /\ UNCHANGED <<pc, exit_error, dbconn_global, device, rows, conn, tables, log>>

\* The set_label command: UPDATE device SET label_id = %s WHERE id = %s
UpdateLabel(dev, device_id, label_id) ==
    [ id \in DOMAIN dev |-> IF id = device_id THEN label_id ELSE dev[id] ]

\* The device ids set_label is run with: a device, and an id of no device.
SetLabelArgs == {1, 4}

SetLabel ==
    /\ \E device_id \in SetLabelArgs, label_id \in {Null} \cup { Some(l) : l \in LabelIds } :
        device' = UpdateLabel(device, device_id, label_id)
    /\ UNCHANGED <<pc, exit_error, dbconn_global, schema, rows, conn, tables, log>>

Next == LoopForever \/ OnMessage \/ SetLabel

Spec == Init /\ [][Next]_vars

\* The relay, with a migration of the database among its steps.
NextMigration == LoopForever \/ OnMessage \/ SetLabel \/ AlterSchema

SpecMigration == Init /\ [][NextMigration]_vars

(***************************************************************************)
(* Vocabulary of the properties.                                           *)
(***************************************************************************)
WellFormed(topic) ==
    /\ Len(Split(topic)) = 4
    /\ Split(topic)[1] = "pe32"
    /\ Split(topic)[2] = "ossohq"

MeasureOf(topic) == Split(topic)[3]
IdentifierOf(topic) == Split(topic)[4]
Decodable(payload) == \A i \in 1 .. Len(payload) : payload[i] < 128
Matching(identifier) == { id \in DeviceIds : DeviceIdentifier(id) = identifier }
Routed(measure) == measure \in DOMAIN tables

\* What handling a message leaves for an observer: the rows, the log record
\* and the exception it caught.
Outcome(r) == <<r.rows, r.log, r.exc>>

Running == pc = "loop"

(***************************************************************************)
(* C1. Per-message failure isolation: whatever fails while a message is    *)
(* handled (payload decode, topic parse, device lookup, numeric parse,     *)
(* database write), no exception leaves on_message, the stored rows are    *)
(* untouched, and every next message is handled exactly as it would have   *)
(* been had the failing message not been delivered.                        *)
(***************************************************************************)
FailedConns ==
    { Handle(up, t, topic, payload).conn :
        <<up, t, topic, payload>> \in
            { i \in BOOLEAN \X TimePoints \X Topics \X Payloads :
                Handle(i[1], i[2], i[3], i[4]).exc # NoExc } }

C1_FailureIsolation ==
    Running =>
        /\ \A topic \in Topics, payload \in Payloads, t \in TimePoints, up \in BOOLEAN :
            LET r == Handle(up, t, topic, payload)
            IN  /\ r.raised = NoExc
                /\ r.exc # NoExc => r.rows = rows /\ r.log.level = "error"
        /\ \A c \in FailedConns \ {conn} :
            \A topic \in Topics, payload \in Payloads, t \in TimePoints, up \in BOOLEAN :
                Outcome(on_message(c, device, SchemaColumns(schema), rows, tables,
                                   up, t, topic, payload))
                    = Outcome(Handle(up, t, topic, payload))

\* A message has failed and the relay is running, with rows stored before.
C1_Witness ==
    /\ Running
    /\ log.level = "error"
    /\ log.etype = "IntegrityError"
    /\ Len(rows) = 1

(***************************************************************************)
(* C2. The relay process ends only on an unrecoverable startup failure:    *)
(* the database unreachable during schema discovery, or the broker         *)
(* unreachable at the initial connect. (Stated as the claim has it; the    *)
(* relay command ends with a NameError with both reachable.)               *)
(***************************************************************************)
C2_ExitsOnlyOnUnreachable ==
    pc = "exited" => exit_error \in {"OperationalError", "ConnectionRefusedError"}

(***************************************************************************)
(* C3. A message whose device resolves to a record with a NULL label_id    *)
(* writes no row, whatever its measurement and payload: a decodable one is *)
(* ignored at info level when the database answers. And a message that    *)
(* does write a row comes from a device whose record has a label, which is *)
(* the row's label_id.                                                     *)
(***************************************************************************)
C3_NoLabelNoRow ==
    Running =>
        \A topic \in WellFormedTopics, payload \in Payloads, t \in TimePoints, up \in BOOLEAN :
            LET r == Handle(up, t, topic, payload)
                ids == Matching(IdentifierOf(topic))
            IN  /\ (Cardinality(ids) = 1 /\ \A id \in ids : device[id] = Null) =>
                    /\ r.rows = rows
                    /\ (Decodable(payload) /\ up) => r.exc = NoExc /\ r.log.level = "info"
                /\ r.rows # rows =>
                    /\ r.rows = Append(rows, r.rows[Len(r.rows)])
                    /\ \E id \in ids : /\ device[id] # Null
                                       /\ r.rows[Len(r.rows)].cols["label_id"] = device[id]

\* A message for a table of the catalog, from a device without a label, has
\* been ignored.
C3_Witness ==
    /\ Running
    /\ log.level = "info"
    /\ log.ignoring = <<Some(1), Null>>
    /\ Routed(log.e[2])
    /\ device[1] = Null

(***************************************************************************)
(* C4. Every stored row is in a table that the catalog built at startup    *)
(* holds, with the marshaller float (Numeric) or str (Text); and no        *)
(* message, whatever its measurement name, makes a row in another table.   *)
(***************************************************************************)
C4_RowsInCatalogTables ==
    /\ \A k \in 1 .. Len(rows) :
        /\ rows[k].table \in DOMAIN tables
        /\ tables[rows[k].table][2] \in {"float", "str"}
    /\ Running =>
        \A topic \in Topics, payload \in Payloads, t \in TimePoints, up \in BOOLEAN :
            LET r == Handle(up, t, topic, payload)
            IN  r.rows # rows => r.rows[Len(r.rows)].table \in DOMAIN tables

\* Rows are stored, and messages named after tables outside the catalog
\* have been handled.
C4_Witness ==
    /\ Len(rows) = MaxRows
    /\ \E k \in 1 .. Len(rows) : rows[k].table = "comfort"
    /\ \E k \in 1 .. Len(rows) : rows[k].table = "humidity"

(***************************************************************************)
(* C5, as claimed. A message with a well-formed topic whose measurement    *)
(* name is not in the catalog, for any device identifier and any payload,  *)
(* writes no row and raises no error: it is ignored at info level.         *)
(***************************************************************************)
C5_UnroutedNeverAnError ==
    Running =>
        \A topic \in WellFormedTopics, payload \in Payloads, t \in TimePoints, up \in BOOLEAN :
            LET r == Handle(up, t, topic, payload)
            IN  ~Routed(MeasureOf(topic)) =>
                    r.rows = rows /\ r.exc = NoExc /\ r.log.level = "info"

(***************************************************************************)
(* C5, amended. Such a message never writes a row. It is ignored at info   *)
(* level, with no error, exactly when its payload decodes, the database    *)
(* answers and its device identifier matches one device record: the        *)
(* payload is decoded and the device looked up before the catalog is       *)
(* consulted, and a failure of either takes the error path of on_message.  *)
(***************************************************************************)
C5_UnroutedDropped ==
    Running =>
        \A topic \in WellFormedTopics, payload \in Payloads, t \in TimePoints, up \in BOOLEAN :
            LET r == Handle(up, t, topic, payload)
                calm == /\ Decodable(payload)
                        /\ up
                        /\ Cardinality(Matching(IdentifierOf(topic))) = 1
            IN  ~Routed(MeasureOf(topic)) =>
                    /\ r.rows = rows
                    /\ r.raised = NoExc
                    /\ calm => r.exc = NoExc /\ r.log.level = "info"
                    /\ ~calm => r.exc # NoExc /\ r.log.level = "error"

\* A message named after a table outside the catalog, from a device with a
\* label, has been ignored.
C5_Witness ==
    /\ Running
    /\ log.level = "info"
    /\ log.e = <<DevType, "pressure">>
    /\ log.ignoring = <<Some(1), Some(1)>>

(***************************************************************************)
(* C6. on_payload on a topic that does not split on '/' into four          *)
(* segments, or whose first segment is not 'pe32' or whose second is not   *)
(* 'ossohq', ends in a topic error (ValueError for the count,              *)
(* AssertionError for a literal) that names the topic, with no side        *)
(* effect: the connection is not used, so no device is looked up, and no   *)
(* row is written. on_message logs it as an error.                         *)
(***************************************************************************)
C6_TopicError ==
    Running =>
        \A topic \in Topics, payload \in Payloads, t \in TimePoints, up \in BOOLEAN :
            LET parts == Split(topic)
                bad == Len(parts) # 4 \/ parts[1] # "pe32" \/ parts[2] # "ossohq"
                p == on_payload(conn, device, SchemaColumns(schema), rows, tables,
                                up, t, topic, payload)
                r == Handle(up, t, topic, payload)
            IN  (bad /\ Decodable(payload)) =>
                    /\ p.exc = Exc(IF Len(parts) # 4 THEN "ValueError" ELSE "AssertionError",
                                   parts)
                    /\ p.rows = rows /\ p.conn = conn /\ p.log = NoLog
                    /\ r.rows = rows /\ r.conn = conn /\ r.log = ErrorLog(p.exc)

\* A topic with a wrong namespace has been refused before the first use of
\* the database.
C6_Witness ==
    /\ Running
    /\ log = ErrorLog(Exc("AssertionError", <<"pe32", "wrongns", "comfort", "devA">>))
    /\ conn = "none"
    /\ rows = <<>>

(***************************************************************************)
(* C7, as claimed. A message routed to a Numeric table, with a payload     *)
(* that parses to v and a device with a label, stores exactly one row,     *)
(* with avg = low = high = v and med = v, the device's label_id and the    *)
(* bucketed time.                                                          *)
(***************************************************************************)
C7_NumericRowWithMed ==
    Running =>
        \A topic \in WellFormedTopics, payload \in Payloads, t \in TimePoints :
            LET r == Handle(TRUE, t, topic, payload)
                ids == Matching(IdentifierOf(topic))
                id == CHOOSE i \in ids : TRUE
                m == MeasureOf(topic)
                v == ParseFloat(payload)
            IN  ( /\ Decodable(payload) /\ v.exc = NoExc
                  /\ Cardinality(ids) = 1 /\ ~FalsyInt(device[id])
                  /\ Routed(m) /\ tables[m][2] = "float" ) =>
                    /\ Len(r.rows) = Len(rows) + 1
                    /\ r.rows = Append(rows,
                         [table |-> m,
                          cols |-> [ c \in {"time", "label_id", "avg", "med", "low", "high"} |->
                                       CASE c = "time" -> Some((t \div 60) * 60)
                                         [] c = "label_id" -> device[id]
                                         [] OTHER -> Some(v.value) ]])

(***************************************************************************)
(* C8. The device lookup wants one row. A decodable message with a         *)
(* well-formed topic whose device identifier matches no device record, or  *)
(* more than one, handled while the database answers, ends in an           *)
(* AssertionError naming the identifier, logged as an error and not at     *)
(* info level; no row is inserted, and nothing leaves on_message, so the   *)
(* relay goes on with the next message.                                    *)
(***************************************************************************)
C8_LookupWantsOneRow ==
    Running =>
        \A topic \in WellFormedTopics, payload \in Payloads, t \in TimePoints :
            LET r == Handle(TRUE, t, topic, payload)
                identifier == IdentifierOf(topic)
            IN  (Decodable(payload) /\ Cardinality(Matching(identifier)) # 1) =>
                    /\ r.exc = Exc("AssertionError", <<identifier>>)
                    /\ r.log = ErrorLog(r.exc)
                    /\ r.rows = rows
                    /\ r.raised = NoExc

\* A message of an identifier that two device records share has been
\* refused, and the relay is running.
C8_Witness ==
    /\ Running
    /\ log = ErrorLog(Exc("AssertionError", <<"dup">>))
    /\ Cardinality(Matching("dup")) = 2

(***************************************************************************)
(* C9. A message routed to a Numeric table, from a device with a label,    *)
(* whose decoded payload float() does not parse, ends in a ValueError      *)
(* before any insert is issued: no row is written, and the error is the    *)
(* ValueError, not one of the insert.                                      *)
(***************************************************************************)
C9_InvalidValueNoInsert ==
    Running =>
        \A topic \in WellFormedTopics, payload \in Payloads, t \in TimePoints :
            LET r == Handle(TRUE, t, topic, payload)
                ids == Matching(IdentifierOf(topic))
                id == CHOOSE i \in ids : TRUE
                m == MeasureOf(topic)
            IN  ( /\ Decodable(payload) /\ ParseFloat(payload).exc # NoExc
                  /\ Cardinality(ids) = 1 /\ ~FalsyInt(device[id])
                  /\ Routed(m) /\ tables[m][2] = "float" ) =>
                    /\ r.exc = Exc("ValueError", <<>>)
                    /\ r.log = ErrorLog(r.exc)
                    /\ r.rows = rows

\* A payload that is no number has been refused for a numeric table.
C9_Witness ==
    /\ Running
    /\ log = ErrorLog(Exc("ValueError", <<>>))
    /\ ~FalsyInt(device[1])

(***************************************************************************)
(* C10. A message routed to a Text table, from a device with a label (a    *)
(* label_id that is neither NULL nor 0), with a payload that is ASCII,     *)
(* handled while the database answers, inserts exactly one row into that   *)
(* table: label_id the device's, time the bucket of the arrival time,      *)
(* value the payload as it came, the empty string and text that reads as   *)
(* a number included.                                                      *)
(***************************************************************************)
C10_TextRowVerbatim ==
    Running =>
        \A topic \in WellFormedTopics, payload \in Payloads, t \in TimePoints :
            LET r == Handle(TRUE, t, topic, payload)
                ids == Matching(IdentifierOf(topic))
                id == CHOOSE i \in ids : TRUE
                m == MeasureOf(topic)
            IN  ( /\ Decodable(payload)
                  /\ Cardinality(ids) = 1 /\ ~FalsyInt(device[id])
                  /\ Routed(m) /\ tables[m][2] = "str" ) =>
                    /\ r.exc = NoExc
                    /\ r.rows = Append(rows,
                         [table |-> m,
                          cols |-> [ c \in {"time", "label_id", "value"} |->
                                       CASE c = "time" -> Some((t \div 60) * 60)
                                         [] c = "label_id" -> device[id]
                                         [] c = "value" -> Some(payload) ]])

\* The empty payload and a payload that reads as a number are stored as
\* they came, in the buckets of their arrival times.
C10_Witness ==
    /\ Len(rows) = 2
    /\ rows[1] = [table |-> "comfort",
                  cols |-> [ c \in {"time", "label_id", "value"} |->
                               CASE c = "time" -> Some(0)
                                 [] c = "label_id" -> Some(1)
                                 [] c = "value" -> Some(<<>>) ]]
    /\ rows[2].table = "comfort"
    /\ rows[2].cols["value"] = Some(<<50, 49, 46, 53>>)
    /\ rows[2].cols["time"] = Some(60)

(***************************************************************************)
(* C11. Rows are committed in the order the messages are delivered, one    *)
(* message at a time: a step of the relay leaves the rows committed before *)
(* it as they are and in their order, and adds at most one row, at the     *)
(* end, which is a whole row of its table. A failed insert adds nothing,   *)
(* removes nothing, and the next message for a text table is committed     *)
(* all the same.                                                           *)
(***************************************************************************)
InsertErrors == {"IntegrityError", "ProgrammingError"}

WholeRow(row, sch) ==
    /\ TableColumns(sch, row.table) # {}
    /\ DOMAIN row.cols = { r.column_name : r \in TableColumns(sch, row.table) }
    /\ \A r \in TableColumns(sch, row.table) :
        r.is_nullable = "NO" => row.cols[r.column_name] # Null

CommittedNext(r, before) ==
    /\ r.exc = NoExc
    /\ Len(r.rows) = Len(before) + 1
    /\ SubSeq(r.rows, 1, Len(before)) = before
    /\ r.rows[Len(r.rows)].table = "comfort"

C11_Step ==
    /\ Len(rows') \in {Len(rows), Len(rows) + 1}
    /\ SubSeq(rows', 1, Len(rows)) = rows
    /\ rows' # rows =>
        /\ WholeRow(rows'[Len(rows')], SchemaColumns(schema))
        /\ log' = NoLog
    /\ log'.etype \in InsertErrors =>
        /\ rows' = rows
        /\ pc' = "loop"
        /\ ~FalsyInt(device'[1]) =>
            \A payload \in { p \in Payloads : Decodable(p) }, t \in TimePoints :
                CommittedNext(on_message(conn', device', SchemaColumns(schema'), rows',
                                         tables', TRUE, t,
                                         Join(<<"pe32", "ossohq", "comfort", "devA">>),
                                         payload),
                              rows')

C11_OrderedCommits == [][C11_Step]_vars

\* Two messages have been committed in the order of their delivery (the
\* later one carries the earlier time).
C11_Witness ==
    /\ Running
    /\ Len(rows) = 2
    /\ rows[1].cols["time"] = Some(60)
    /\ rows[2].cols["time"] = Some(0)
    /\ rows[1].table # rows[2].table

(***************************************************************************)
(* C12, as claimed. Classification is exact: once startup is past the      *)
(* database and the broker, the relay runs, and a table is in the catalog  *)
(* as Numeric exactly when it is not device or label and its columns       *)
(* (name, nullability, data type) are those of the numeric layout, as Text *)
(* exactly when they are those of the text layout; every other table is    *)
(* skipped without error, and a measurement named after it is a routing    *)
(* miss. (A table without columns ends startup with a KeyError.)           *)
(***************************************************************************)
NumericLayoutColumns ==
    { <<"time", "NO", _DB_TS>>, <<"label_id", "NO", _DB_FK>>, <<"avg", "NO", _DB_NUM>>,
      <<"med", "NO", _DB_NUM>>, <<"low", "YES", _DB_NUM>>, <<"high", "YES", _DB_NUM>> }

TextLayoutColumns ==
    { <<"time", "NO", _DB_TS>>, <<"label_id", "NO", _DB_FK>>, <<"value", "NO", _DB_STR>> }

DescribedColumns(sch, t) ==
    { <<r.column_name, r.is_nullable, r.data_type>> : r \in TableColumns(sch, t) }

SystemTable(t) == t \in {"device", "label"}

ExactlyClassified(t) ==
    /\ (t \in DOMAIN tables /\ tables[t] = <<t, "float">>) <=>
            (~SystemTable(t)
                /\ DescribedColumns(SchemaColumns(schema), t) = NumericLayoutColumns)
    /\ (t \in DOMAIN tables /\ tables[t] = <<t, "str">>) <=>
            (~SystemTable(t)
                /\ DescribedColumns(SchemaColumns(schema), t) = TextLayoutColumns)
    /\ t \in DOMAIN tables => tables[t][2] \in {"float", "str"}
    /\ t \notin DOMAIN tables => TablesGet(tables, t) = <<Null, Null>>

C12_ExactClassification ==
    (pc # "start"
        /\ exit_error \notin {"NameError", "OperationalError", "ConnectionRefusedError"}) =>
        /\ pc = "loop"
        /\ DOMAIN tables \subseteq SchemaTables(schema)
        /\ \A t \in SchemaTables(schema) : ExactlyClassified(t)

(***************************************************************************)
(* C13. The time stored for an arrival time t >= 0 is the multiple of 60   *)
(* that is at most t and less than 60 below it, which is floor(t/60)*60:   *)
(* so Timestamp computes it for every t up to MaxTime, so every stored row *)
(* has it, and so has the row any message writes.                          *)
(***************************************************************************)
Bucket(s, t) == s % 60 = 0 /\ s <= t /\ t - s < 60

C13_TimestampBucket ==
    /\ \A t \in 0 .. MaxTime : Bucket(Timestamp(t), t)
    /\ \A k \in 1 .. Len(rows) :
        /\ rows[k].cols["time"] # Null
        /\ \E t \in TimePoints : Bucket(rows[k].cols["time"][1], t)
    /\ Running =>
        \A topic \in WellFormedTopics, payload \in Payloads, t \in TimePoints, up \in BOOLEAN :
            Handle(up, t, topic, payload).rows # rows =>
                /\ Handle(up, t, topic, payload).rows[Len(rows) + 1].cols["time"] # Null
                /\ Bucket(Handle(up, t, topic, payload).rows[Len(rows) + 1].cols["time"][1], t)

\* A numeric row of a message that came at 59 is stored at 0, and one of a
\* message that came at 60 is stored at 60.
C13_Witness ==
    /\ Len(rows) = 2
    /\ rows[1].table = "humidity"
    /\ rows[1].cols["time"] = Some(0)
    /\ rows[2].table = "humidity"
    /\ rows[2].cols["time"] = Some(60)

(***************************************************************************)
(* C14, as claimed. A change of a device's label by set_label takes effect *)
(* for the very next message of the device: after the label is cleared the *)
(* message writes no row; after a label L is assigned, a message with a    *)
(* valid payload, routed to a table that exists, writes a row with         *)
(* label_id = L. (The device is looked up anew for every message, but the  *)
(* row of a numeric table is refused for its med: C7.)                     *)
(***************************************************************************)
ValidFor(marshaller, payload) ==
    /\ Decodable(payload)
    /\ marshaller = "float" => ParseFloat(payload).exc = NoExc

WritesRowWithLabel(r, before, table, label_id) ==
    /\ Len(r.rows) = Len(before) + 1
    /\ r.rows[Len(r.rows)].table = table
    /\ r.rows[Len(r.rows)].cols["label_id"] = label_id

C14_Step ==
    (pc' = "loop" /\ device'[1] # device[1]) =>
        \A m \in Measures, payload \in Payloads, t \in TimePoints :
            /\ device'[1] = Null =>
                on_message(conn', device', SchemaColumns(schema'), rows', tables', TRUE, t,
                           Join(<<"pe32", "ossohq", m, "devA">>), payload).rows = rows'
            /\ ( /\ ~FalsyInt(device'[1])
                  /\ m \in DOMAIN tables'
                  /\ TableColumns(SchemaColumns(schema'), m) # {}
                  /\ ValidFor(tables'[m][2], payload) ) =>
                WritesRowWithLabel(
                    on_message(conn', device', SchemaColumns(schema'), rows', tables', TRUE, t,
                               Join(<<"pe32", "ossohq", m, "devA">>), payload),
                    rows', m, device'[1])

C14_LabelTakesEffect == [][C14_Step]_vars

(***************************************************************************)
(* C15. Discovery does not depend on the order of the answers: on a given  *)
(* schema, from_database gives the same result (the same catalog, or the   *)
(* same error) for every order in which the two queries return the tables  *)
(* and the column rows, and the catalog the relay runs with is that one.   *)
(***************************************************************************)
ReferenceDiscovery ==
    from_database(SeqOf(SchemaTables(schema)), SeqOf(SchemaColumns(schema)))

C15_OrderIndependent ==
    /\ pc = "start" =>
        \A tables_res \in TableAnswers(SchemaTables(schema)),
           columns_res \in ColumnAnswers(SchemaColumns(schema)) :
            from_database(tables_res, columns_res) = ReferenceDiscovery
    /\ pc = "loop" => ReferenceDiscovery.exc = NoExc /\ tables = ReferenceDiscovery.tables

\* The relay runs on the deployed schema, with its three measurement
\* tables classified.
C15_Witness ==
    /\ pc = "loop"
    /\ schema = Deployed
    /\ DOMAIN tables = {"temperature", "humidity", "comfort"}

(***************************************************************************)
(* C16. The catalog is built once, at startup: no step of the running      *)
(* relay (a message handled, a label set, the schema altered) changes it,  *)
(* and a message is routed by it alone. Whether the database has the       *)
(* deployed schema or the altered one, a message goes to the same table,   *)
(* or to none: the table the catalog names, also when the database has     *)
(* dropped it, and no table for a name outside the catalog, also when the  *)
(* database now has a table of that name with a layout's columns.          *)
(***************************************************************************)
\* The table a handled message was directed to: that of the row it wrote or
\* of the insert that failed; Null when no insert was issued.
Target(r, before) ==
    IF r.rows # before THEN Some(r.rows[Len(r.rows)].table)
    ELSE IF r.exc.etype \in InsertErrors THEN Some(r.exc.e[Len(r.exc.e)])
    ELSE Null

TargetOn(name, t, topic, payload) ==
    Target(on_message(conn, device, SchemaColumns(name), rows, tables, TRUE, t, topic,
                      payload), rows)

C16_RoutedByCatalog ==
    Running =>
        \A topic \in WellFormedTopics, payload \in Payloads, t \in TimePoints :
            /\ TargetOn(Deployed, t, topic, payload) = TargetOn(Altered, t, topic, payload)
            /\ TargetOn(schema, t, topic, payload) \in
                    {Null} \cup { Some(m) : m \in {MeasureOf(topic)} \cap DOMAIN tables }

C16_CatalogFrozen ==
    /\ []C16_RoutedByCatalog
    /\ [][pc = "loop" => tables' = tables]_vars

\* After the migration gave pressure the columns of the numeric layout, a
\* message named pressure, of a device with a label, was ignored as a
\* routing miss: the catalog is the one of startup.
C16_Witness ==
    /\ Running
    /\ schema = Altered
    /\ DescribedColumns(SchemaColumns(schema), "pressure") = NumericLayoutColumns
    /\ "pressure" \notin DOMAIN tables
    /\ log.level = "info"
    /\ log.e = <<DevType, "pressure">>
    /\ log.ignoring = <<Some(1), Some(1)>>

(***************************************************************************)
(* C17, as claimed. The error record of a message that failed holds the    *)
(* message's topic, its payload and the error. (The record is made of the  *)
(* class of the exception, the payload and the exception's message; the    *)
(* topic is in it only when the exception's message happens to carry it.)  *)
(***************************************************************************)
HoldsTopic(line, topic) ==
    \A i \in 1 .. Len(Split(topic)) :
        \E j \in 1 .. Len(line.e) : line.e[j] = Split(topic)[i]

C17_ErrorLogHasContext ==
    Running =>
        \A topic \in Topics, payload \in Payloads, t \in TimePoints, up \in BOOLEAN :
            Handle(up, t, topic, payload).exc # NoExc =>
                /\ Handle(up, t, topic, payload).log.level = "error"
                /\ ErrorLine(payload, Handle(up, t, topic, payload).exc).payload = payload
                /\ ErrorLine(payload, Handle(up, t, topic, payload).exc).etype # ""
                /\ HoldsTopic(ErrorLine(payload, Handle(up, t, topic, payload).exc), topic)

(***************************************************************************)
(* C18. get() returns a connection that is not closed, or raises: it       *)
(* connects when there is no connection yet or the one it holds is closed, *)
(* and returns the one it holds, without connecting, while that is open.   *)
(* So with the database answering, a message handled when the connection   *)
(* is closed is handled as with an open connection: the device is looked   *)
(* up once, a message for a text table from a device with a label is       *)
(* written, and the connection is open afterwards.                         *)
(***************************************************************************)
GetReturnsOpen(c, up) ==
    /\ ConnGet(c, up).exc = NoExc => ConnGet(c, up).conn = "open"
    /\ c = "open" =>
        /\ ConnGet(c, up).exc = NoExc
        /\ ConnGet(c, up).conn = "open"
        /\ ConnGet(c, up).connects = 0
    /\ c \in {"none", "closed"} =>
        /\ ConnGet(c, up).connects = 1
        /\ up => ConnGet(c, up).exc = NoExc /\ ConnGet(c, up).conn = "open"

HandledAsOpen(r, o, topic) ==
    /\ Outcome(r) = Outcome(o)
    /\ r.lookups = 1
    /\ r.conn = "open"
    /\ ( /\ MeasureOf(topic) \in DOMAIN tables
          /\ tables[MeasureOf(topic)][2] = "str"
          /\ IdentifierOf(topic) = "devA"
          /\ ~FalsyInt(device[1]) ) =>
            /\ r.exc = NoExc
            /\ Len(r.rows) = Len(rows) + 1

C18_ConnectionReopened ==
    /\ \A up \in BOOLEAN : GetReturnsOpen(conn, up)
    /\ (Running /\ conn = "closed") =>
        \A topic \in WellFormedTopics, payload \in { p \in Payloads : Decodable(p) },
           t \in TimePoints :
            HandledAsOpen(Handle(TRUE, t, topic, payload),
                          on_message("open", device, SchemaColumns(schema), rows, tables,
                                     TRUE, t, topic, payload),
                          topic)

\* The connection is closed, after a message that met a database that did
\* not answer; a row was written before, and the device has a label.
C18_Witness ==
    /\ Running
    /\ conn = "closed"
    /\ log.etype = "OperationalError"
    /\ Len(rows) = 1
    /\ ~FalsyInt(device[1])

(***************************************************************************)
(* C19. A delivered message makes at most one query on the device table    *)
(* and at most one row: a message that is ignored, or that fails, leaves   *)
(* the rows as they are, and one that writes a row has looked the device   *)
(* up once. Every step of the relay adds at most one row, and only a step  *)
(* that handles a message adds one: after n messages there are at most n   *)
(* rows.                                                                   *)
(***************************************************************************)
AtMostOne(r, before) ==
    /\ r.lookups \in {0, 1}
    /\ Len(r.rows) <= Len(before) + 1
    /\ r.log.level # "none" => r.rows = before
    /\ r.exc # NoExc => r.rows = before
    /\ r.rows # before => r.lookups = 1

C19_PerMessage ==
    Running =>
        \A topic \in Topics, payload \in Payloads, t \in TimePoints, up \in BOOLEAN :
            AtMostOne(Handle(up, t, topic, payload), rows)

C19_AtMostOneRow ==
    /\ []C19_PerMessage
    /\ [][ /\ Len(rows') <= Len(rows) + 1
            /\ rows' # rows =>
                /\ pc = "loop" /\ log' = NoLog
                /\ device' = device /\ schema' = schema /\ tables' = tables ]_vars

\* After a message that wrote a row, a message named after a system table
\* was ignored and left the one row.
C19_Witness ==
    /\ Running
    /\ Len(rows) = 1
    /\ log.level = "info"
    /\ log.e = <<DevType, "device">>

(***************************************************************************)
(* C20. The test on the label is one of truthiness. A message of a device  *)
(* whose label_id is 0, handled while the database answers, is ignored at  *)
(* info level and writes no row, whatever table it is named after, as it   *)
(* is when the label_id is NULL. And an entry of the catalog whose table   *)
(* name is empty, were there one, would not be used: a message with the    *)
(* empty measurement name is ignored too, for a device with a label.       *)
(***************************************************************************)
IgnoredWith(r, before, id, label_id, measure) ==
    /\ r.rows = before
    /\ r.exc = NoExc
    /\ r.log = IgnoringLog(id, DevType, label_id, measure)

C20_LabelTruthiness ==
    Running =>
        \A m \in Measures \cup {""}, payload \in { p \in Payloads : Decodable(p) },
           t \in TimePoints :
            /\ IgnoredWith(on_message(conn, UpdateLabel(device, 1, Some(0)),
                                       SchemaColumns(schema), rows, tables, TRUE, t,
                                       Join(<<"pe32", "ossohq", m, "devA">>), payload),
                            rows, 1, Some(0), m)
            /\ IgnoredWith(on_message(conn, UpdateLabel(device, 1, Null),
                                       SchemaColumns(schema), rows, tables, TRUE, t,
                                       Join(<<"pe32", "ossohq", m, "devA">>), payload),
                            rows, 1, Null, m)
            /\ device[1] = Some(0) =>
                IgnoredWith(Handle(TRUE, t, Join(<<"pe32", "ossohq", m, "devA">>), payload),
                            rows, 1, Some(0), m)
            /\ IgnoredWith(on_message(conn, UpdateLabel(device, 1, Some(1)),
                                       SchemaColumns(schema), rows, add_text(tables, ""),
                                       TRUE, t, Join(<<"pe32", "ossohq", "", "devA">>),
                                       payload),
                            rows, 1, Some(1), "")

\* A message named after a table of the catalog, of a device whose
\* label_id is 0, has been ignored.
C20_Witness ==
    /\ Running
    /\ device[1] = Some(0)
    /\ log.level = "info"
    /\ log.ignoring = <<Some(1), Some(0)>>
    /\ Routed(log.e[2])

====
